---- MODULE Spec2Model ----
(***************************************************************************)
(* helm-migrate-release: main, NewMigrator, Migrator.migrateRelease,       *)
(* Migrator.migrateNamespace and Migrator.migrateAll of src/main.go as a   *)
(* sequential state machine.                                               *)
(*                                                                         *)
(* The Helm storage drivers are modelled by their contract.  A store is a  *)
(* set of revisions <<release, version>>.  Create on the target adds the   *)
(* revision when it succeeds, Delete on the source removes it when it      *)
(* succeeds, and a failed call leaves the store as it was.  Whether a call *)
(* succeeds is chosen by the environment at each call.                     *)
(***************************************************************************)
EXTENDS Integers, Sequences, FiniteSets

\* ---------------------------------------------------------------- bounds
\* most revisions one release has in the source driver
MaxRevs == 2
\* largest value given to the -max flag (0 .. MaxFlag)
MaxFlag == 1

\* ------------------------------------------------------------ the cluster
\* release names; names are unique in the cluster
Names == {"r1", "r2", "r3"}
Namespaces == {"nsA", "nsB"}
\* release.Namespace of a listed release
NsOf(n) == IF n = "r3" THEN "nsB" ELSE "nsA"

\* values of the -to flag: the four the switch accepts, the flag's default
\* "" and one unknown kind
ToValues == {"configmap", "configmaps", "secret", "secrets", "", "pod"}
\* values of flag.Arg(0)
Subcommands == {"", "release", "namespace", "all", "bogus"}
\* values of flag.Arg(1), which only the release subprogram reads
ReleaseArgs == {"", "r1", "r3"}

VARIABLES
    subcommands,   \* flag.Arg(0)
    releaseName,   \* flag.Arg(1)
    to,            \* -to
    namespace,     \* -namespace
    maxHist,       \* -max
    source,        \* revisions held by the source driver ($HELM_DRIVER)
    target,        \* revisions held by the target driver
    source0,       \* the source driver's content when the process started
    pc,            \* position of the process
    err,           \* main's err
    exitCode,      \* process exit code, -1 while running
    migratorErr,   \* err returned by NewMigrator: "unset", "nil", "error"
    listErr,       \* err returned by the List action: "unset", "nil", "error"
    releases,      \* result of the List action
    idx,           \* position of the range loop over releases
    mrName,        \* migrateRelease: releaseName
    mrNs,          \* migrateRelease: namespace
    hist,          \* migrateRelease: hist (versions)
    hi,            \* migrateRelease: position of the range loop over hist
    failed,        \* migrateRelease: failed
    mrErr,         \* migrateRelease: returned error
    calls,         \* number of migrateRelease calls so far
    log            \* calls made so far, in order

vars == << subcommands, releaseName, to, namespace, maxHist, source, target,
           source0, pc, err, exitCode, migratorErr, listErr, releases, idx,
           mrName, mrNs, hist, hi, failed, mrErr, calls, log >>

flags == << subcommands, releaseName, to, namespace, maxHist, source0 >>
mrVars == << mrName, mrNs, hist, hi, failed, mrErr >>

\* ---------------------------------------------------------------- helpers
RECURSIVE SeqOfSet(_)
\* the versions of a set in ascending order
SeqOfSet(S) ==
    IF S = {} THEN << >>
    ELSE LET m == CHOOSE x \in S : \A y \in S : x <= y
         IN << m >> \o SeqOfSet(S \ {m})

\* sequences of distinct elements of S
DistinctSeqs(S) ==
    UNION { { q \in [1..n -> S] : \A i, j \in 1..n : i # j => q[i] # q[j] }
            : n \in 0..Cardinality(S) }

\* versions of release n held by store st
VersionsIn(st, n) == { r[2] : r \in { x \in st : x[1] = n } }

\* most revisions of release n in the source driver: r1 has the long ledger
RevCap(n) == IF n = "r1" THEN MaxRevs ELSE 1

\* a store where every release n has the revisions 1..k for some k
Stores ==
    { UNION { { <<n, v>> : v \in 1..f[n] } : n \in Names }
      : f \in { g \in [Names -> 0..MaxRevs] : \A n \in Names : g[n] <= RevCap(n) } }

Event(op, n, v, ok, c) == [op |-> op, rel |-> n, ver |-> v, ok |-> ok, call |-> c]

\* ------------------------------------------------------------------- Init
Init ==
    /\ subcommands \in Subcommands
    /\ releaseName \in (IF subcommands = "release" THEN ReleaseArgs ELSE {""})
    /\ to \in ToValues
    /\ namespace \in Namespaces
    /\ maxHist \in 0..MaxFlag
    /\ source \in Stores
    /\ source0 = source
    /\ target = {}
    /\ pc = "main"
    /\ err = "nil"
    /\ exitCode = -1
    /\ migratorErr = "unset"
    /\ listErr = "unset"
    /\ releases = << >>
    /\ idx = 0
    /\ mrName = ""
    /\ mrNs = ""
    /\ hist = << >>
    /\ hi = 0
    /\ failed = FALSE
    /\ mrErr = "nil"
    /\ calls = 0
    /\ log = << >>

\* ------------------------------------------------- pieces of the operations
\* faulty variant: an unknown kind is accepted as well
ValidToAlsoPod == {"configmap", "configmaps", "secret", "secrets", "pod"}

\* the resource kinds the switch on "to" accepts
ValidTo == {"configmap", "configmaps", "secret", "secrets"}

\* histCmd.Run(releaseName): the release's ledger in the source driver,
\* every stored revision of it.  max is the action's Max field, which the
\* caller sets and which Run does not read; main.go does not cut hist either.
HistoryRun(st, n, max) == SeqOfSet(VersionsIn(st, n))

\* the range loop over hist: the step after position i of h is done
LoopPc(i, h) == IF i > Len(h) THEN "mrEnd" ELSE "create"

\* faulty variant: the "continue" after a failed create is missing
AfterCreateNoContinue(ok) == "delete"

\* faulty variant: the delete is never reached
AfterCreateNoDelete(ok) == "next"

\* after helmStorage.Create: an error means "continue", success goes on to
\* the delete of the same revision
AfterCreate(ok) == IF ok THEN "delete" ELSE "next"

\* faulty variant: an error ends the loop ("break" instead of "continue")
NextPosBreak(i, h, ok) == IF ok THEN i + 1 ELSE Len(h) + 1

\* the position in hist after the step at position i of h returned ok or an
\* error: both error branches "continue", so the loop moves on either way
NextPos(i, h, ok) == i + 1

\* faulty variant: the error branches do not set failed
FailedAfterKeep(f, ok) == f

\* failed after a create or a delete returned
FailedAfter(f, ok) == IF ok THEN f ELSE TRUE

\* the error migrateRelease returns after the loop
LoopResult(f) == IF f THEN "error" ELSE "nil"

\* faulty variant: the namespace comparison is missing
NamespaceMatchAny(n, ns) == TRUE

\* the filter of migrateNamespace's loop
NamespaceMatch(n, ns) == NsOf(n) = ns

\* faulty variant: the first failed release ends the loop
AfterReleaseStop(i, n, e) == IF e = "nil" THEN i + 1 ELSE n + 1

\* migrateNamespace and migrateAll after migrateRelease returned e for the
\* entry at position i of a list of length n: print and continue
AfterRelease(i, n, e) == i + 1

\* what migrateNamespace and migrateAll return once the list is exhausted
ListLoopResult(anyErr) == "nil"

\* faulty variant: the error is printed but the process exits with 0
ExitCodeOfZero(e) == 0

\* main's last check
ExitCodeOf(e) == IF e # "nil" THEN 1 ELSE 0

\* ------------------------------------------------------------------- main
\* flag.Parse, flag.Arg(0) and the check that a subprogram was given
main ==
    /\ pc = "main"
    /\ IF subcommands = ""
       THEN /\ exitCode' = 1
            /\ pc' = "exited"
       ELSE /\ pc' = "NewMigrator"
            /\ UNCHANGED exitCode
    /\ UNCHANGED << flags, source, target, err, migratorErr, listErr,
                    releases, idx, mrVars, calls, log >>

\* NewMigrator: the client and the action configuration are built or an
\* error comes back, and main exits with 1
NewMigrator ==
    /\ pc = "NewMigrator"
    /\ \E ok \in BOOLEAN :
         IF ok
         THEN /\ migratorErr' = "nil"
              /\ pc' = "switch"
              /\ UNCHANGED << err, exitCode >>
         ELSE /\ migratorErr' = "error"
              /\ err' = "error"
              /\ exitCode' = 1
              /\ pc' = "exited"
    /\ UNCHANGED << flags, source, target, listErr, releases, idx, mrVars,
                    calls, log >>

\* switch subcommands
mainSwitch ==
    /\ pc = "switch"
    /\ CASE subcommands = "release" ->
              IF releaseName = ""
              THEN /\ exitCode' = 1
                   /\ pc' = "exited"
                   /\ UNCHANGED << err, mrName, mrNs >>
              ELSE /\ mrName' = releaseName
                   /\ mrNs' = namespace
                   /\ pc' = "migrateRelease"
                   /\ UNCHANGED << err, exitCode >>
         [] subcommands = "namespace" ->
              /\ pc' = "migrateNamespace"
              /\ UNCHANGED << err, exitCode, mrName, mrNs >>
         [] subcommands = "all" ->
              /\ pc' = "migrateAll"
              /\ UNCHANGED << err, exitCode, mrName, mrNs >>
         [] OTHER ->
              /\ err' = "error"
              /\ pc' = "mainErr"
              /\ UNCHANGED << exitCode, mrName, mrNs >>
    /\ UNCHANGED << flags, source, target, migratorErr, listErr, releases,
                    idx, hist, hi, failed, mrErr, calls, log >>

\* if err != nil { Println; os.Exit(1) }, else main returns
mainExit ==
    /\ pc = "mainErr"
    /\ exitCode' = ExitCodeOf(err)
    /\ pc' = "exited"
    /\ UNCHANGED << flags, source, target, err, migratorErr, listErr,
                    releases, idx, mrVars, calls, log >>

\* --------------------------------------------------------- migrateRelease
\* entry: the switch on "to" that selects the target driver
migrateRelease ==
    /\ pc = "migrateRelease"
    /\ calls' = calls + 1
    /\ log' = Append(log, Event("call", mrName, 0, TRUE, calls + 1))
    /\ hist' = << >>
    /\ hi' = 0
    /\ failed' = FALSE
    /\ IF to \in ValidTo
       THEN /\ pc' = "history"
            /\ mrErr' = "nil"
       ELSE /\ pc' = "mrReturn"
            /\ mrErr' = "error"
    /\ UNCHANGED << flags, source, target, err, exitCode, migratorErr,
                    listErr, releases, idx, mrName, mrNs >>

\* histCmd.Max = maxHist; hist, err := histCmd.Run(releaseName).  Run fails
\* when the cluster is unreachable or the release has no stored revision.
migrateReleaseHistory ==
    /\ pc = "history"
    /\ \E ok \in BOOLEAN :
         LET h == HistoryRun(source, mrName, maxHist)
         IN IF ok /\ h # << >>
            THEN /\ hist' = h
                 /\ hi' = 1
                 /\ failed' = FALSE
                 /\ pc' = LoopPc(1, h)
                 /\ log' = Append(log, Event("history", mrName, Len(h), TRUE, calls))
                 /\ UNCHANGED mrErr
            ELSE /\ mrErr' = "error"
                 /\ pc' = "mrReturn"
                 /\ log' = Append(log, Event("history", mrName, 0, FALSE, calls))
                 /\ UNCHANGED << hist, hi, failed >>
    /\ UNCHANGED << flags, source, target, err, exitCode, migratorErr,
                    listErr, releases, idx, mrName, mrNs, calls >>

\* err = helmStorage.Create(release)
migrateReleaseCreate ==
    /\ pc = "create"
    /\ \E ok \in BOOLEAN :
         /\ target' = IF ok THEN target \cup { <<mrName, hist[hi]>> } ELSE target
         /\ failed' = FailedAfter(failed, ok)
         /\ log' = Append(log, Event("create", mrName, hist[hi], ok, calls))
         /\ IF AfterCreate(ok) = "delete"
            THEN /\ pc' = "delete"
                 /\ UNCHANGED hi
            ELSE /\ hi' = NextPos(hi, hist, ok)
                 /\ pc' = LoopPc(NextPos(hi, hist, ok), hist)
    /\ UNCHANGED << flags, source, err, exitCode, migratorErr, listErr,
                    releases, idx, mrName, mrNs, hist, mrErr, calls >>

\* _, err = m.actionCfg.Releases.Delete(releaseName, release.Version)
migrateReleaseDelete ==
    /\ pc = "delete"
    /\ \E ok \in BOOLEAN :
         /\ source' = IF ok THEN source \ { <<mrName, hist[hi]>> } ELSE source
         /\ failed' = FailedAfter(failed, ok)
         /\ log' = Append(log, Event("delete", mrName, hist[hi], ok, calls))
         /\ hi' = NextPos(hi, hist, ok)
         /\ pc' = LoopPc(NextPos(hi, hist, ok), hist)
    /\ UNCHANGED << flags, target, err, exitCode, migratorErr, listErr,
                    releases, idx, mrName, mrNs, hist, mrErr, calls >>

\* if failed { return fmt.Errorf(...) }; return nil
migrateReleaseEnd ==
    /\ pc = "mrEnd"
    /\ mrErr' = LoopResult(failed)
    /\ pc' = "mrReturn"
    /\ UNCHANGED << flags, source, target, err, exitCode, migratorErr,
                    listErr, releases, idx, mrName, mrNs, hist, hi, failed,
                    calls, log >>

\* migrateRelease returns to main: err = migrator.migrateRelease(...)
mainAfterRelease ==
    /\ pc = "mrReturn"
    /\ subcommands = "release"
    /\ err' = mrErr
    /\ pc' = "mainErr"
    /\ UNCHANGED << flags, source, target, exitCode, migratorErr, listErr,
                    releases, idx, mrVars, calls, log >>

\* ------------------------------------------------------- migrateNamespace
\* the releases a List action can return: distinct releases that have a
\* revision in the source driver, in any order
Listings == DistinctSeqs({ n \in Names : VersionsIn(source, n) # {} })

\* releases, err := action.NewList(m.actionCfg).Run()
migrateNamespace ==
    /\ pc = "migrateNamespace"
    /\ \E ok \in BOOLEAN :
         IF ok
         THEN /\ \E l \in Listings : releases' = l
              /\ listErr' = "nil"
              /\ idx' = 1
              /\ pc' = "nsLoop"
              /\ UNCHANGED err
         ELSE /\ listErr' = "error"
              /\ err' = "error"
              /\ pc' = "mainErr"
              /\ UNCHANGED << releases, idx >>
    /\ UNCHANGED << flags, source, target, exitCode, migratorErr, mrVars,
                    calls, log >>

\* one pass of "for _, release := range releases" up to the call
migrateNamespaceLoop ==
    /\ pc = "nsLoop"
    /\ IF idx > Len(releases)
       THEN /\ err' = ListLoopResult(FALSE)
            /\ pc' = "mainErr"
            /\ UNCHANGED << idx, mrName, mrNs >>
       ELSE IF NamespaceMatch(releases[idx], namespace)
            THEN /\ mrName' = releases[idx]
                 /\ mrNs' = namespace
                 /\ pc' = "migrateRelease"
                 /\ UNCHANGED << err, idx >>
            ELSE /\ idx' = idx + 1
                 /\ UNCHANGED << err, pc, mrName, mrNs >>
    /\ UNCHANGED << flags, source, target, exitCode, migratorErr, listErr,
                    releases, hist, hi, failed, mrErr, calls, log >>

\* migrateRelease returns to migrateNamespace: the error is printed
migrateNamespaceAfterRelease ==
    /\ pc = "mrReturn"
    /\ subcommands = "namespace"
    /\ idx' = AfterRelease(idx, Len(releases), mrErr)
    /\ pc' = "nsLoop"
    /\ UNCHANGED << flags, source, target, err, exitCode, migratorErr,
                    listErr, releases, mrVars, calls, log >>

\* ------------------------------------------------------------- migrateAll
\* listCmd.AllNamespaces = true; releases, err := listCmd.Run()
migrateAll ==
    /\ pc = "migrateAll"
    /\ \E ok \in BOOLEAN :
         IF ok
         THEN /\ \E l \in Listings : releases' = l
              /\ listErr' = "nil"
              /\ idx' = 1
              /\ pc' = "allLoop"
              /\ UNCHANGED err
         ELSE /\ listErr' = "error"
              /\ err' = "error"
              /\ pc' = "mainErr"
              /\ UNCHANGED << releases, idx >>
    /\ UNCHANGED << flags, source, target, exitCode, migratorErr, mrVars,
                    calls, log >>

\* one pass of "for _, release := range releases" up to the call
migrateAllLoop ==
    /\ pc = "allLoop"
    /\ IF idx > Len(releases)
       THEN /\ err' = ListLoopResult(FALSE)
            /\ pc' = "mainErr"
            /\ UNCHANGED << mrName, mrNs >>
       ELSE /\ mrName' = releases[idx]
            /\ mrNs' = NsOf(releases[idx])
            /\ pc' = "migrateRelease"
            /\ UNCHANGED err
    /\ UNCHANGED << flags, source, target, exitCode, migratorErr, listErr,
                    releases, idx, hist, hi, failed, mrErr, calls, log >>

\* migrateRelease returns to migrateAll: the error is printed
migrateAllAfterRelease ==
    /\ pc = "mrReturn"
    /\ subcommands = "all"
    /\ idx' = AfterRelease(idx, Len(releases), mrErr)
    /\ pc' = "allLoop"
    /\ UNCHANGED << flags, source, target, err, exitCode, migratorErr,
                    listErr, releases, mrVars, calls, log >>

\* ---------------------------------------------------------- specification
Next ==
    \/ main
    \/ NewMigrator
    \/ mainSwitch
    \/ mainExit
    \/ migrateRelease
    \/ migrateReleaseHistory
    \/ migrateReleaseCreate
    \/ migrateReleaseDelete
    \/ migrateReleaseEnd
    \/ mainAfterRelease
    \/ migrateNamespace
    \/ migrateNamespaceLoop
    \/ migrateNamespaceAfterRelease
    \/ migrateAll
    \/ migrateAllLoop
    \/ migrateAllAfterRelease

Spec == Init /\ [][Next]_vars

TypeOK ==
    /\ pc \in {"main", "NewMigrator", "switch", "mainErr", "exited",
               "migrateRelease", "history", "create", "delete", "mrEnd",
               "mrReturn", "migrateNamespace", "nsLoop", "migrateAll",
               "allLoop"}
    /\ exitCode \in {-1, 0, 1}
    /\ source \subseteq source0
    /\ hi \in 0..(MaxRevs + 2)

\* ======================================================================
\* Properties
\* ======================================================================
\* positions of the log that hold an op event of call c
Ops(op, c) == { i \in DOMAIN log : log[i].op = op /\ log[i].call = c }
\* positions of the log that hold an op event of call c for version v
OpsOn(op, c, v) == { i \in Ops(op, c) : log[i].ver = v }
\* positions of creates and deletes, whatever the call
Writes == { i \in DOMAIN log : log[i].op \in {"create", "delete"} }
\* the current migrateRelease call fetched its history
Fetched == hist # << >>
\* some create or delete of call c failed
SomeFailure(c) ==
    \E i \in Ops("create", c) \cup Ops("delete", c) : ~log[i].ok
\* the versions in hist
HistSet == { hist[k] : k \in DOMAIN hist }
\* the -to values the tool accepts, as its usage names them
KnownKinds == {"configmap", "configmaps", "secret", "secrets"}

\* C1: every delete of revision v on the source driver comes after a create
\* of the same revision v on the target driver that succeeded in the same
\* migrateRelease call.
C1_DeleteOnlyAfterCreate ==
    \A i \in DOMAIN log :
        log[i].op = "delete" =>
            \E j \in 1..(i - 1) :
                /\ log[j].op = "create"
                /\ log[j].ok
                /\ log[j].rel = log[i].rel
                /\ log[j].ver = log[i].ver
                /\ log[j].call = log[i].call

\* a second migrateRelease call of a run deleted a revision after an earlier
\* create of the run had failed
C1_Witness ==
    /\ calls >= 2
    /\ Ops("delete", calls) # {}
    /\ \E i \in DOMAIN log : log[i].op = "create" /\ ~log[i].ok

\* C2: when migrateRelease fetched N revisions and no create and no delete
\* failed, it made N creates, one per revision, and N deletes, one per
\* revision, returns nil, and each revision is in the target and not in the
\* source.
C2_FullMigration ==
    (pc = "mrReturn" /\ to \in KnownKinds /\ Fetched /\ ~SomeFailure(calls)) =>
        /\ Cardinality(Ops("create", calls)) = Len(hist)
        /\ Cardinality(Ops("delete", calls)) = Len(hist)
        /\ \A v \in HistSet :
              /\ Cardinality(OpsOn("create", calls, v)) = 1
              /\ Cardinality(OpsOn("delete", calls, v)) = 1
              /\ <<mrName, v>> \in target
              /\ <<mrName, v>> \notin source
        /\ mrErr = "nil"

\* a call without failures returns for a release of at least two revisions
C2_Witness ==
    /\ pc = "mrReturn"
    /\ to \in KnownKinds
    /\ Len(hist) >= 2
    /\ ~SomeFailure(calls)
    /\ Cardinality(Ops("delete", calls)) = Len(hist)

\* C3: a failed create or delete does not stop the loop.  When a call that
\* fetched its history returns, every revision of hist had exactly one
\* create attempt, in the order of hist; a revision whose create failed had
\* no delete, and a revision whose create succeeded had its delete attempt.
C3_FailureDoesNotStopLoop ==
    (pc = "mrReturn" /\ Fetched) =>
        /\ \A k \in DOMAIN hist :
              /\ Cardinality(OpsOn("create", calls, hist[k])) = 1
              /\ \A i \in OpsOn("create", calls, hist[k]) :
                    /\ ~log[i].ok => OpsOn("delete", calls, hist[k]) = {}
                    /\ log[i].ok =>
                          Cardinality(OpsOn("delete", calls, hist[k])) = 1
        /\ \A k, l \in DOMAIN hist :
              k < l =>
                 \A i \in OpsOn("create", calls, hist[k]),
                    j \in OpsOn("create", calls, hist[l]) : i < j

\* the create of the first revision failed, the delete of a later one
\* failed, and the call still went through the whole history
C3_Witness ==
    /\ pc = "mrReturn"
    /\ Len(hist) >= 2
    /\ \E i \in OpsOn("create", calls, hist[1]) : ~log[i].ok
    /\ \E i \in OpsOn("delete", calls, hist[2]) : ~log[i].ok

\* C4: with a valid target type and a fetched history, migrateRelease
\* returns an error exactly when a create or a delete failed, and nil
\* exactly when every revision was created on the target and deleted from
\* the source.
C4_ErrorIffFailure ==
    (pc = "mrReturn" /\ to \in KnownKinds /\ Fetched) =>
        /\ mrErr = "error" <=> SomeFailure(calls)
        /\ mrErr = "nil" <=>
              \A v \in HistSet :
                 /\ \E i \in OpsOn("create", calls, v) : log[i].ok
                 /\ \E i \in OpsOn("delete", calls, v) : log[i].ok

\* every create succeeded and only a delete failed: the call returns an
\* error
C4_Witness ==
    /\ pc = "mrReturn"
    /\ to \in KnownKinds
    /\ Fetched
    /\ mrErr = "error"
    /\ \A i \in Ops("create", calls) : log[i].ok
    /\ \E i \in Ops("delete", calls) : ~log[i].ok

\* C5: migrateNamespace(ns) touches only releases of namespace ns.  No call,
\* history fetch, create or delete names a release of another namespace,
\* the revisions of such a release stay where they were, and once the loop
\* is done every listed release of namespace ns had exactly one
\* migrateRelease call.
C5_NamespaceFrame ==
    subcommands = "namespace" =>
        /\ \A i \in DOMAIN log : NsOf(log[i].rel) = namespace
        /\ \A n \in Names :
              NsOf(n) # namespace =>
                 /\ VersionsIn(source, n) = VersionsIn(source0, n)
                 /\ VersionsIn(target, n) = {}
        /\ (pc \in {"mainErr", "exited"} /\ listErr = "nil") =>
              \A k \in DOMAIN releases :
                 NsOf(releases[k]) = namespace =>
                    Cardinality({ i \in DOMAIN log :
                                    /\ log[i].op = "call"
                                    /\ log[i].rel = releases[k] }) = 1

\* a namespace run is over whose listing began with a release of another
\* namespace and went on with one of the namespace, which was migrated
C5_Witness ==
    /\ subcommands = "namespace"
    /\ pc = "exited"
    /\ Len(releases) >= 2
    /\ NsOf(releases[1]) # namespace
    /\ NsOf(releases[2]) = namespace
    /\ \E i \in Writes : log[i].op = "delete" /\ log[i].ok

\* the releases the loop of the running subprogram selects
Selected(n) == subcommands = "all" \/ NsOf(n) = namespace
\* the releases migrateRelease was called for, in call order
RECURSIVE CalledFrom(_)
CalledFrom(i) ==
    IF i > Len(log) THEN << >>
    ELSE IF log[i].op = "call" THEN << log[i].rel >> \o CalledFrom(i + 1)
    ELSE CalledFrom(i + 1)
Called == CalledFrom(1)

\* C6 as stated: with a -to value that is none of configmap, configmaps,
\* secret, secrets the run ends in an error, exit code 1, under every
\* subprogram, and makes no create and no delete.
C6_UnknownKindAlwaysFails ==
    (pc = "exited" /\ to \notin KnownKinds) =>
        /\ exitCode = 1
        /\ Writes = {}

\* C6, amended: with such a -to value no history is fetched, no create and
\* no delete is made under any subprogram, and every migrateRelease call
\* returns an error.  The release subprogram exits with 1.  The namespace and
\* all subprograms only print these errors: they exit with 1 exactly when
\* NewMigrator or the listing failed, and with 0 otherwise.
C6_UnknownKindNoWrites ==
    to \notin KnownKinds =>
        /\ \A i \in DOMAIN log : log[i].op = "call"
        /\ target = {}
        /\ source = source0
        /\ pc = "mrReturn" => mrErr = "error"
        /\ (pc = "exited" /\ subcommands = "release") => exitCode = 1
        /\ (pc = "exited" /\ subcommands \in {"namespace", "all"}) =>
              (exitCode = 1 <=> (migratorErr = "error" \/ listErr = "error"))
        /\ (pc = "exited" /\ exitCode # 1) => exitCode = 0

\* an all run with an unknown kind called migrateRelease for two releases
\* and exited with 0
C6_Witness ==
    /\ pc = "exited"
    /\ to = "pod"
    /\ subcommands = "all"
    /\ calls >= 2
    /\ exitCode = 0

\* C7: soft continuation.  When the listing succeeded, migrateNamespace and
\* migrateAll call migrateRelease for every selected release in list order,
\* whatever the earlier calls returned, and return nil; when the listing
\* failed they return an error and nothing was created or deleted.
C7_SoftContinuation ==
    (subcommands \in {"namespace", "all"} /\ pc \in {"mainErr", "exited"}
       /\ listErr # "unset") =>
        /\ listErr = "nil" =>
              /\ Called = SelectSeq(releases, Selected)
              /\ err = "nil"
              /\ pc = "exited" => exitCode = 0
        /\ listErr = "error" =>
              /\ err = "error"
              /\ log = << >>
              /\ target = {}
              /\ source = source0
              /\ pc = "exited" => exitCode = 1

\* the first of at least two calls had a failed create, the later ones were
\* still made and the run exited with 0
C7_Witness ==
    /\ subcommands \in {"namespace", "all"}
    /\ pc = "exited"
    /\ listErr = "nil"
    /\ calls >= 2
    /\ \E i \in Ops("create", 1) : ~log[i].ok
    /\ Ops("create", calls) # {}
    /\ exitCode = 0

\* the selected operation returned an error to main
OperationFailed ==
    \/ subcommands = "release" /\ calls = 1 /\ mrErr = "error"
    \/ subcommands \in {"namespace", "all"} /\ listErr = "error"

C9_AtMostMaxRevisions ==
    \A c \in 1..calls :
        /\ Cardinality(Ops("create", c)) <= maxHist
        /\ Cardinality(Ops("delete", c)) <= maxHist

\* C10: no revision is lost: every revision the source driver held at the
\* start is in the source driver or in the target driver.
C10_NoRevisionLost ==
    \A r \in source0 : r \in source \/ r \in target

\* after failures in a run one revision is in both drivers, one only in the
\* target and one only in the source
C10_Witness ==
    /\ \E r \in source0 : r \in source /\ r \in target
    /\ \E r \in source0 : r \notin source /\ r \in target
    /\ \E r \in source0 : r \in source /\ r \notin target
    /\ \E i \in DOMAIN log : log[i].op = "create" /\ ~log[i].ok

====
